---- MODULE Spec2Model ----
(***************************************************************************)
(* State-machine model of the "Python Debugger" add-on (src/__init__.py):  *)
(* the operators InstallDebugpy, UninstallDebugpy, StartDebugServer,       *)
(* StopDebugServer and WORKSPACE_OT_toggle_debugpy, the port preference,   *)
(* the load_post handler and register()/unregister().                      *)
(*                                                                         *)
(* The host (its operator dispatch, poll, ID properties, file loading),    *)
(* the pip subprocesses and the debugpy library are the environment: their *)
(* outcomes are inputs drawn with \E.                                      *)
(***************************************************************************)
EXTENDS Integers, FiniteSets, Sequences, TLC

\* ---------------------------------------------------------------- bounds
\* Number of workspaces of the open file.
NumWorkspaces == 2

Workspaces == 1..NumWorkspaces

\* ------------------------------------------------------- program constants
\* IntProperty(name="Server Port", default=5678, min=1024, max=65535)
DefaultPort == 5678
MinPort == 1024
MaxPort == 65535

\* Values a script or the preferences page may try to store in the port.
PortInputs == {1023, 6000, 65536}

\* Command lines the host may have been started with (sys.argv flags).
ArgvChoices == {{"--background"}, {"--debug"}, {"--debug-all", "--background"}}

\* The stored value of the custom property "auto_start_debugpy" of a
\* workspace: the key is absent, or holds True, or holds False.
FlagValues == {"absent", "true", "false"}

\* Outcomes of subprocess.call: it raises (the interpreter cannot be run), or
\* returns the child's exit status, zero or not.
CallOutcomes == {"raise", "nonzero", "zero"}

\* _classes: the classes register() hands to register_classes_factory.
_classes == {"DebugPythonPreferences", "script.install_debugpy",
             "script.uninstall_debugpy", "script.start_debug_server",
             "workspace.toggle_debugpy", "WORKSPACE_PT_debugpy"}

\* self.report() notifications, as LEVEL:message.
ErrorOrWarning == {"ERROR:pip", "ERROR:install", "ERROR:uninstall",
                   "ERROR:import", "WARNING:listen", "WARNING:stop"}
SuccessReports == {"INFO:installed", "INFO:uninstalled", "INFO:started",
                   "INFO:stopped"}

VARIABLES
    argv,               \* sys.argv flags of the host process
    classes,            \* classes registered with the host
    load_post,          \* debugpy_load_handler is in bpy.app.handlers.load_post
    menu,               \* start_remote_debugger_menu is in the System menu
    installed,          \* importlib.util.find_spec('debugpy') is not None
    debugpy,            \* the module global debugpy is set (imported)
    DEBUGPY_LISTENING,  \* the module global DEBUGPY_LISTENING
    serverPort,         \* port debugpy really listens on, 0 when it does not
    port,               \* DebugPythonPreferences.port
    wsProps,            \* stored auto_start_debugpy value of each workspace
    ws,                 \* bpy.context.workspace
    last,               \* what the last operation did (history)
    prev                \* the operation before it (history)

vars == <<argv, classes, load_post, menu, installed, debugpy, DEBUGPY_LISTENING,
          serverPort, port, wsProps, ws, last, prev>>

\* The record of an operation that did nothing.
NoOp == [op |-> "none", ws |-> 0, reports |-> {}, finished |-> FALSE,
         escaped |-> FALSE, failure |-> "none", called |-> FALSE,
         popup |-> FALSE, listenCalled |-> FALSE, listenArg |-> 0,
         listenOk |-> FALSE, listeningBefore |-> FALSE, readBefore |-> FALSE,
         reported |-> FALSE, removeRaised |-> FALSE]

\* What is kept of the operation before the last one: whether it was a toggle,
\* on which workspace, and what the flag read before it.
Brief(r) ==
    IF r.op = "toggle"
    THEN [op |-> r.op, ws |-> r.ws, readBefore |-> r.readBefore]
    ELSE [op |-> "other", ws |-> 0, readBefore |-> FALSE]

\* --------------------------------------------------------------- helpers

\* is_blender_debug_mode(): any(arg in sys.argv for arg in ('--debug', '--debug-all'))
is_blender_debug_mode_OnlyDebug == "--debug" \in argv

is_blender_debug_mode == \E arg \in {"--debug", "--debug-all"} : arg \in argv

\* ws.get("auto_start_debugpy", default), as a truth value.
WsGet(v, default) == IF v = "absent" THEN default ELSE v = "true"

\* ws.get("auto_start_debugpy") and ws["auto_start_debugpy"]
AutoStartSet(v) == WsGet(v, FALSE) /\ v = "true"

\* The hard limits of the IntProperty: the host clamps a stored value.
ClampPort(p) == IF p < MinPort THEN MinPort ELSE IF p > MaxPort THEN MaxPort ELSE p

\* debugpy.listen(p): it returns when the process is not listening yet and
\* the port can be bound, and raises otherwise ("already listening").
ListenSucceeds(p, portFree) == serverPort = 0 /\ portFree

Init ==
    /\ argv \in ArgvChoices
    /\ classes = {}
    /\ load_post = FALSE
    /\ menu = FALSE
    /\ installed \in BOOLEAN
    /\ debugpy = FALSE
    /\ DEBUGPY_LISTENING = FALSE
    /\ serverPort = 0
    /\ port = DefaultPort
    /\ wsProps = [w \in Workspaces |-> "absent"]
    /\ ws = 1
    /\ last = NoOp
    /\ prev = Brief(NoOp)

\* ---------------------------------------------------------- registration

register ==
    /\ classes = {}
    /\ classes' = _classes
    /\ menu' = TRUE
    /\ load_post' = TRUE
    /\ last' = [NoOp EXCEPT !.op = "register"]
    /\ prev' = Brief(last)
    /\ UNCHANGED <<argv, installed, debugpy, DEBUGPY_LISTENING, serverPort, port,
                   wsProps, ws>>

unregister ==
    /\ classes # {}
    /\ classes' = {}
    /\ load_post' = FALSE
    /\ menu' = FALSE
    /\ last' = [NoOp EXCEPT !.op = "unregister"]
    /\ prev' = Brief(last)
    /\ UNCHANGED <<argv, installed, debugpy, DEBUGPY_LISTENING, serverPort, port,
                   wsProps, ws>>

\* ----------------------------------------------------------- preferences

\* A value is stored in the port preference.
SetPort ==
    /\ "DebugPythonPreferences" \in classes
    /\ \E p \in PortInputs : port' = ClampPort(p)
    /\ last' = [NoOp EXCEPT !.op = "setport"]
    /\ prev' = Brief(last)
    /\ UNCHANGED <<argv, classes, load_post, menu, installed, debugpy,
                   DEBUGPY_LISTENING, serverPort, wsProps, ws>>

\* The user makes another workspace the current one.
SwitchWorkspace ==
    /\ classes # {}
    /\ \E w \in Workspaces \ {ws} : ws' = w
    /\ last' = [NoOp EXCEPT !.op = "switch"]
    /\ prev' = Brief(last)
    /\ UNCHANGED <<argv, classes, load_post, menu, installed, debugpy,
                   DEBUGPY_LISTENING, serverPort, port, wsProps>>

\* ------------------------------------------------------------- operators

\* InstallDebugpy.execute: ensurepip, then pip install debugpy, each through
\* subprocess.call inside try/except Exception.
InstallExecute(ensure, pipc) ==
    IF ensure = "raise"
    THEN [reports |-> {"INFO:installing", "ERROR:pip"}, ranPip |-> FALSE]
    ELSE IF pipc = "raise"
    THEN [reports |-> {"INFO:installing", "ERROR:install"}, ranPip |-> TRUE]
    ELSE [reports |-> {"INFO:installing", "INFO:installed"}, ranPip |-> TRUE]

\* The failure an install run met, from the subprocess outcomes alone.
InstallFailure(ensure, pipc) ==
    IF ensure # "zero" THEN "pip"
    ELSE IF pipc # "zero" THEN "install"
    ELSE "none"

Install ==
    /\ "script.install_debugpy" \in classes
    /\ \E ensure \in CallOutcomes, pipc \in CallOutcomes :
         LET r == InstallExecute(ensure, pipc) IN
         /\ installed' = (installed \/ (r.ranPip /\ pipc = "zero"))
         /\ last' = [NoOp EXCEPT !.op = "install", !.ws = ws,
                                 !.reports = r.reports, !.finished = TRUE,
                                 !.failure = InstallFailure(ensure, pipc)]
    /\ prev' = Brief(last)
    /\ UNCHANGED <<argv, classes, load_post, menu, debugpy, DEBUGPY_LISTENING,
                   serverPort, port, wsProps, ws>>

\* UninstallDebugpy.execute: pip uninstall debugpy --yes through subprocess.call.
UninstallExecute(pipc) ==
    IF pipc = "raise"
    THEN {"INFO:uninstalling", "ERROR:uninstall"}
    ELSE {"INFO:uninstalling", "INFO:uninstalled"}

Uninstall ==
    /\ "script.uninstall_debugpy" \in classes
    /\ \E pipc \in CallOutcomes :
         /\ installed' = (installed /\ pipc # "zero")
         /\ last' = [NoOp EXCEPT !.op = "uninstall", !.ws = ws,
                                 !.reports = UninstallExecute(pipc),
                                 !.finished = TRUE]
    /\ prev' = Brief(last)
    /\ UNCHANGED <<argv, classes, load_post, menu, debugpy, DEBUGPY_LISTENING,
                   serverPort, port, wsProps, ws>>

\* StartDebugServer.poll
StartPoll == installed

StartExecute_SetsOnFailure(importOk, portFree) ==
    IF ~debugpy /\ ~importOk
    THEN [debugpy |-> FALSE, listening |-> DEBUGPY_LISTENING, server |-> serverPort,
          reports |-> {"ERROR:import"}, failure |-> "import",
          listenCalled |-> FALSE, listenArg |-> 0, listenOk |-> FALSE]
    ELSE IF ListenSucceeds(port, portFree)
    THEN [debugpy |-> TRUE, listening |-> TRUE, server |-> port,
          reports |-> {"INFO:started"}, failure |-> "none",
          listenCalled |-> TRUE, listenArg |-> port, listenOk |-> TRUE]
    ELSE [debugpy |-> TRUE, listening |-> TRUE, server |-> serverPort,
          reports |-> {"WARNING:listen"}, failure |-> "listen",
          listenCalled |-> TRUE, listenArg |-> port, listenOk |-> FALSE]

StartExecute_DefaultPort(importOk, portFree) ==
    IF ~debugpy /\ ~importOk
    THEN [debugpy |-> FALSE, listening |-> DEBUGPY_LISTENING, server |-> serverPort,
          reports |-> {"ERROR:import"}, failure |-> "import",
          listenCalled |-> FALSE, listenArg |-> 0, listenOk |-> FALSE]
    ELSE IF ListenSucceeds(DefaultPort, portFree)
    THEN [debugpy |-> TRUE, listening |-> TRUE, server |-> DefaultPort,
          reports |-> {"INFO:started"}, failure |-> "none",
          listenCalled |-> TRUE, listenArg |-> DefaultPort, listenOk |-> TRUE]
    ELSE [debugpy |-> TRUE, listening |-> DEBUGPY_LISTENING, server |-> serverPort,
          reports |-> {"WARNING:listen"}, failure |-> "listen",
          listenCalled |-> TRUE, listenArg |-> DefaultPort, listenOk |-> FALSE]

\* StartDebugServer.execute: import debugpy when the global is unset, then
\* debugpy.listen(addon_prefs.port); DEBUGPY_LISTENING = True follows the
\* call inside the try block.
StartExecute(importOk, portFree) ==
    IF ~debugpy /\ ~importOk
    THEN [debugpy |-> FALSE, listening |-> DEBUGPY_LISTENING, server |-> serverPort,
          reports |-> {"ERROR:import"}, failure |-> "import",
          listenCalled |-> FALSE, listenArg |-> 0, listenOk |-> FALSE]
    ELSE IF ListenSucceeds(port, portFree)
    THEN [debugpy |-> TRUE, listening |-> TRUE, server |-> port,
          reports |-> {"INFO:started"}, failure |-> "none",
          listenCalled |-> TRUE, listenArg |-> port, listenOk |-> TRUE]
    ELSE [debugpy |-> TRUE, listening |-> DEBUGPY_LISTENING, server |-> serverPort,
          reports |-> {"WARNING:listen"}, failure |-> "listen",
          listenCalled |-> TRUE, listenArg |-> port, listenOk |-> FALSE]

\* The import of an installed package may still raise; of a missing one it does.
ImportOutcomes == IF installed THEN BOOLEAN ELSE {FALSE}

\* The host runs script.start_debug_server (menu entry, panel button, bpy.ops).
Start ==
    /\ "script.start_debug_server" \in classes
    /\ StartPoll
    /\ \E importOk \in ImportOutcomes, portFree \in BOOLEAN :
         LET r == StartExecute(importOk, portFree) IN
         /\ debugpy' = r.debugpy
         /\ DEBUGPY_LISTENING' = r.listening
         /\ serverPort' = r.server
         /\ last' = [NoOp EXCEPT !.op = "start", !.ws = ws, !.reports = r.reports,
                                 !.finished = TRUE, !.failure = r.failure,
                                 !.listenCalled = r.listenCalled,
                                 !.listenArg = r.listenArg, !.listenOk = r.listenOk,
                                 !.listeningBefore = DEBUGPY_LISTENING]
    /\ prev' = Brief(last)
    /\ UNCHANGED <<argv, classes, load_post, menu, installed, port, wsProps, ws>>

\* The new stored value: ws[key] = not current; if current: del ws[key].
ToggleValue_NoNegation(v) ==
    LET current == WsGet(v, FALSE)
        stored == IF current THEN "true" ELSE "false"
    IN IF current THEN "absent" ELSE stored

ToggleValue(v) ==
    LET current == WsGet(v, FALSE)
        stored == IF ~current THEN "true" ELSE "false"
    IN IF current THEN "absent" ELSE stored

\* WORKSPACE_OT_toggle_debugpy.execute
Toggle ==
    /\ "workspace.toggle_debugpy" \in classes
    /\ LET current == WsGet(wsProps[ws], FALSE) IN
         /\ wsProps' = [wsProps EXCEPT ![ws] = ToggleValue(wsProps[ws])]
         /\ last' = [NoOp EXCEPT !.op = "toggle", !.ws = ws,
                                 !.reports = {"INFO:toggle"}, !.finished = TRUE,
                                 !.readBefore = current, !.reported = ~current]
    /\ prev' = Brief(last)
    /\ UNCHANGED <<argv, classes, load_post, menu, installed, debugpy,
                   DEBUGPY_LISTENING, serverPort, port, ws>>

\* StopDebugServer.poll
StopPoll == DEBUGPY_LISTENING

\* StopDebugServer.execute: import debugpy when the global is unset, then
\* DEBUGPY_LISTENING = False and bpy.context.workspace.remove(key) in one try
\* block. debugpy has no call that stops the server, so none is made. The
\* host's remove either returns, the key gone, or raises, the properties as
\* they were.
StopExecute(importOk, removeRaises) ==
    IF ~debugpy /\ ~importOk
    THEN [debugpy |-> FALSE, listening |-> DEBUGPY_LISTENING, props |-> wsProps,
          reports |-> {"ERROR:import"}, failure |-> "import", pastImport |-> FALSE]
    ELSE IF removeRaises
    THEN [debugpy |-> TRUE, listening |-> FALSE, props |-> wsProps,
          reports |-> {"WARNING:stop"}, failure |-> "none", pastImport |-> TRUE]
    ELSE [debugpy |-> TRUE, listening |-> FALSE,
          props |-> [wsProps EXCEPT ![ws] = "absent"],
          reports |-> {"INFO:stopped"}, failure |-> "none", pastImport |-> TRUE]

\* A host in which script.stop_debug_server has been registered (register()
\* leaves StopDebugServer out of _classes) runs the operator.
Stop ==
    /\ classes # {}
    /\ StopPoll
    /\ \E importOk \in ImportOutcomes, removeRaises \in BOOLEAN :
         LET r == StopExecute(importOk, removeRaises) IN
         /\ debugpy' = r.debugpy
         /\ DEBUGPY_LISTENING' = r.listening
         /\ wsProps' = r.props
         /\ last' = [NoOp EXCEPT !.op = "stop", !.ws = ws, !.reports = r.reports,
                                 !.finished = TRUE, !.failure = r.failure,
                                 !.called = r.pastImport,
                                 !.listeningBefore = DEBUGPY_LISTENING,
                                 !.readBefore = WsGet(wsProps[ws], FALSE),
                                 !.removeRaised = r.pastImport /\ removeRaises]
    /\ prev' = Brief(last)
    /\ UNCHANGED <<argv, classes, load_post, menu, installed, serverPort, port, ws>>

\* ---------------------------------------------------------- load handler

\* The condition of debugpy_load_handler on the current workspace's value.
LoadCondition(v) == is_blender_debug_mode \/ AutoStartSet(v)

\* The workspaces of a loaded file: its active workspace holds v, the others
\* hold no flag.
FileProps(w, v) == [x \in Workspaces |-> IF x = w THEN v ELSE "absent"]

\* A file is loaded and the host runs the load_post handlers. The workspaces
\* are the session's (the file is loaded without its UI) or the file's.
\* bpy.ops.script.start_debug_server() raises when the operator's poll fails,
\* and the popup call after it is then not reached.
FileLoad ==
    /\ load_post
    /\ \E keepUI \in BOOLEAN, fileValue \in FlagValues,
          fileWs \in Workspaces, importOk \in ImportOutcomes, portFree \in BOOLEAN :
         LET props1 == IF keepUI THEN wsProps ELSE FileProps(fileWs, fileValue)
             ws1 == IF keepUI THEN ws ELSE fileWs
             r == StartExecute(importOk, portFree)
             rec == [NoOp EXCEPT !.op = "load", !.ws = ws1,
                                 !.listeningBefore = DEBUGPY_LISTENING]
         IN
         /\ wsProps' = props1
         /\ ws' = ws1
         /\ IF ~LoadCondition(props1[ws1])
            THEN /\ last' = rec
                 /\ UNCHANGED <<debugpy, DEBUGPY_LISTENING, serverPort>>
            ELSE IF ~StartPoll
            THEN /\ last' = [rec EXCEPT !.called = TRUE, !.escaped = TRUE]
                 /\ UNCHANGED <<debugpy, DEBUGPY_LISTENING, serverPort>>
            ELSE /\ debugpy' = r.debugpy
                 /\ DEBUGPY_LISTENING' = r.listening
                 /\ serverPort' = r.server
                 /\ last' = [rec EXCEPT !.called = TRUE, !.popup = TRUE,
                                        !.reports = r.reports, !.finished = TRUE,
                                        !.failure = r.failure,
                                        !.listenCalled = r.listenCalled,
                                        !.listenArg = r.listenArg,
                                        !.listenOk = r.listenOk]
    /\ prev' = Brief(last)
    /\ UNCHANGED <<argv, classes, load_post, menu, installed, port>>

\* --------------------------------------------------------- specifications

\* What the host can do with the add-on as register() registers it.
Next ==
    \/ register
    \/ unregister
    \/ SetPort
    \/ SwitchWorkspace
    \/ Install
    \/ Uninstall
    \/ Start
    \/ Toggle
    \/ FileLoad

Spec == Init /\ [][Next]_vars

\* The same with the stop operator run as well.
NextExec ==
    \/ register
    \/ unregister
    \/ SetPort
    \/ SwitchWorkspace
    \/ Install
    \/ Uninstall
    \/ Start
    \/ Stop
    \/ Toggle
    \/ FileLoad

SpecExec == Init /\ [][NextExec]_vars

TypeOK ==
    /\ argv \in ArgvChoices
    /\ classes \in {{}, _classes}
    /\ load_post \in BOOLEAN /\ menu \in BOOLEAN /\ installed \in BOOLEAN
    /\ debugpy \in BOOLEAN /\ DEBUGPY_LISTENING \in BOOLEAN
    /\ serverPort \in 0..MaxPort /\ port \in Int
    /\ wsProps \in [Workspaces -> FlagValues]
    /\ ws \in Workspaces

\* ----------------------------------------------------------------- claims

\* C1: on every file load the handler calls the start-server operator if and
\* only if the command line holds --debug or --debug-all, or the current
\* workspace's auto_start_debugpy is present and true.
C1_LoadStartsIff ==
    last.op = "load" =>
        (last.called <=> ("--debug" \in argv \/ "--debug-all" \in argv
                          \/ wsProps[ws] = "true"))

\* A load that started the server because of the workspace flag alone.
C1_Witness ==
    /\ last.op = "load" /\ last.called /\ last.listenOk
    /\ argv = {"--background"} /\ wsProps[ws] = "true"

\* C2: an operator run that met one of the four failures (pip unavailable,
\* install failure, import failure, listen failure) reports an ERROR or a
\* WARNING, reports no success, and returns {'FINISHED'} with no exception
\* escaping.
C2_FailuresReported ==
    (last.op \in {"install", "start", "load"} /\ last.failure # "none") =>
        /\ last.reports \cap ErrorOrWarning # {}
        /\ last.reports \cap SuccessReports = {}
        /\ last.finished
        /\ ~last.escaped

\* C3: DEBUGPY_LISTENING is true if and only if the debug server is listening.
C3_ListeningIffServer == DEBUGPY_LISTENING <=> serverPort # 0

\* C4: once register() has run, the install, start and stop commands are all
\* registered, and the stop command is there whenever DEBUGPY_LISTENING is true.
C4_AllCommandsRegistered ==
    /\ classes # {} =>
         {"script.install_debugpy", "script.start_debug_server",
          "script.stop_debug_server"} \subseteq classes
    /\ DEBUGPY_LISTENING => "script.stop_debug_server" \in classes

\* C5: a toggle flips the flag's reading (absent or false reads true after,
\* true reads false and is absent after), the value it reports is the reading
\* after it, and two toggles in a row on one workspace restore the reading.
C5_ToggleFlips ==
    last.op = "toggle" =>
        /\ ~last.readBefore => wsProps[ws] = "true"
        /\ last.readBefore => wsProps[ws] = "absent"
        /\ last.reported = (wsProps[ws] = "true")
        /\ (prev.op = "toggle" /\ prev.ws = last.ws) =>
               (wsProps[ws] = "true") = prev.readBefore

\* Two toggles in a row on a workspace whose flag was true.
C5_Witness ==
    /\ last.op = "toggle" /\ prev.op = "toggle" /\ prev.ws = last.ws
    /\ prev.readBefore /\ wsProps[ws] = "true"

\* C6: the port preference is an integer in 1024..65535, 5678 until it is
\* set, every debugpy.listen call gets the preference's value, and the server
\* listens on no port outside 1024..65535.
C6_PortInRange ==
    /\ port \in 1024..65535
    /\ last.listenCalled => last.listenArg = port
    /\ serverPort # 0 => serverPort \in 1024..65535
    /\ last.op = "none" => port = 5678

\* The server was started on the highest port after the preference was set.
C6_Witness ==
    last.op = "start" /\ last.listenOk /\ port = 65535 /\ serverPort = 65535

\* C7: a stop run that got past the import ends with DEBUGPY_LISTENING false
\* and the current workspace's auto_start_debugpy removed, on its INFO path
\* and on its WARNING path.
C7_StopClearsFlag ==
    (last.op = "stop" /\ last.called) =>
        (~DEBUGPY_LISTENING /\ wsProps[ws] = "absent")

\* C8: when the load handler shows "Remote python debugger auto started." the
\* start it ran did start the server.
C8_PopupMeansStarted ==
    (last.op = "load" /\ last.popup) => (last.listenOk /\ DEBUGPY_LISTENING)

\* C9: a start run changes DEBUGPY_LISTENING only to true and only when
\* debugpy.listen returned; a run that fails at the import or at the listen
\* leaves it as it was.
C9_StartSetsOnlyOnSuccess ==
    (last.op \in {"start", "load"}) =>
        /\ DEBUGPY_LISTENING # last.listeningBefore =>
               (DEBUGPY_LISTENING /\ last.listenOk)
        /\ last.failure \in {"import", "listen"} =>
               DEBUGPY_LISTENING = last.listeningBefore
        /\ last.listenOk => DEBUGPY_LISTENING

\* A start attempted while the server was already listening: it failed at
\* the listen step and DEBUGPY_LISTENING stayed true.
C9_Witness ==
    /\ last.op = "start" /\ last.failure = "listen"
    /\ last.listeningBefore /\ DEBUGPY_LISTENING /\ serverPort # 0

====
